---- MODULE Spec2Model ----
(***************************************************************************)
(* Model of PVDiagramPlotting.ipynb: the notebook's code cells, executed   *)
(* statement by statement from top to bottom by one kernel.  The state is  *)
(* the kernel's namespace (which names are bound, and to what), the        *)
(* figures and panels that the plotting calls build, and the files in the  *)
(* working directory.  The libraries the notebook calls are opaque: an     *)
(* extracted diagram is represented by the inputs that determine it (the   *)
(* cube, the Path object and the spacing in effect).                       *)
(***************************************************************************)
EXTENDS Integers, Sequences, FiniteSets, TLC

\* ------------------------------------------------------------------ bounds
\* How many times the whole notebook is run (kernel restart + run all).
MaxRuns == 2
\* How many distinct contents the downloaded cube can have.
NumCubes == 2

\* ------------------------------------------------------- values and names
\* A statement of a code cell: the notebook cell id, the line of the .ipynb
\* file it stands on, the operation, the names it reads, the names it binds
\* and its literal arguments.
S(c, l, o, r, b, a, n) ==
  [cell |-> c, line |-> l, op |-> o, reads |-> r, binds |-> b,
   arg |-> a, num |-> n, flag |-> FALSE]

\* extract_pv_slice called without a spacing argument.
NoSpacingArg == 0
\* "The default spacing is 1 pixel"
DefaultSpacing == 1

EffectiveSpacing(n) == IF n = NoSpacingArg THEN DefaultSpacing ELSE n

NoPath == [coords |-> "none", pts |-> <<>>, width |-> 0]

\* The three Path literals of the notebook.  Sky coordinates are kept as
\* integers: right ascension in thousandths of an hour, declination in
\* hundredths of a degree, width in arcminutes.
PathLiteral(name) ==
  CASE name = "path" ->
         [coords |-> "pixel",
          pts |-> << <<20, 20>>, <<40, 40>>, <<60, 20>> >>, width |-> 0]
    [] name = "skypath" ->
         [coords |-> "fk5",
          pts |-> << <<3400, 3050>>, <<3430, 3075>>, <<3420, 3050>> >>,
          width |-> 0]
    [] name = "skypath2" ->
         [coords |-> "fk5",
          pts |-> << <<3400, 3050>>, <<3429, 3075>>, <<3420, 3050>> >>,
          width |-> 2]
    [] OTHER -> NoPath

PathVars == {"path", "skypath", "skypath2"}
Diagrams == {"pvdiagram", "pvdiagram2", "pvdiagram3", "pvdiagram4"}

NoDiagram == [cube |-> 0, path |-> NoPath, spacing |-> 0]

\* The PrimaryHDU that extract_pv_slice returns, identified by what it was
\* extracted from.
PVSlice(c, p, n) == [cube |-> c, path |-> p, spacing |-> EffectiveSpacing(n)]

FitsFile == "saved_pvdiagram.fits"
PngFile == "saved_pvdiagram.png"
PdfFile == "saved_pvdiagram.pdf"
FileNames == {FitsFile, PngFile, PdfFile}
NoFile == [exists |-> FALSE, diag |-> NoDiagram, fig |-> 0, run |-> 0]


\* ------------------------------------------------------------ the notebook
\* Label texts.  The sky labels are f-strings over cube.wcs.wcs.radesys.
RALabel == "Right Ascension [radesys]"
DecLabel == "Declination [radesys]"
VelLabel == "Velocity [km/s]"
OffLabel == "Offset [arcmin]"

Cell2 == <<
  S(2, 44, "import", {}, {"plt"}, "matplotlib.pyplot", 0),
  S(2, 45, "import", {}, {"u"}, "astropy.units", 0),
  S(2, 46, "import", {}, {"wcs"}, "astropy.wcs", 0),
  S(2, 48, "import", {}, {"SpectralCube"}, "spectral_cube", 0),
  S(2, 50, "import", {}, {"extract_pv_slice", "Path"}, "pvextractor", 0),
  S(2, 53, "eval", {"plt"}, {}, "rcParams", 0) >>

Cell4 == <<
  S(4, 71, "read", {"SpectralCube"}, {"cube"}, "l1448_13co.fits", 0),
  S(4, 72, "eval", {"cube"}, {}, "cube", 0) >>

Cell6 == <<
  S(6, 91, "plt_imshow", {"plt", "cube"}, {}, "cube[25]", 0) >>

Cell8 == <<
  S(8, 115, "Path", {"Path"}, {"path"}, "path", 0) >>

Cell10 == <<
  S(10, 133, "subplot", {"plt", "cube"}, {"ax"}, "celestial", 111),
  S(10, 134, "imshow", {"ax", "cube"}, {}, "cube[25]", 0),
  S(10, 135, "show_on_axis", {"path", "ax"}, {}, "path", 1),
  S(10, 136, "set_xlabel", {"ax", "cube"}, {}, RALabel, 0),
  S(10, 137, "set_ylabel", {"ax", "cube"}, {}, DecLabel, 0) >>

Cell13 == <<
  S(13, 163, "extract", {"extract_pv_slice", "cube", "path"},
    {"pvdiagram"}, "path", 1),
  S(13, 164, "eval", {"pvdiagram"}, {}, "pvdiagram", 0) >>

Cell15 == <<
  S(15, 182, "subplot", {"plt", "wcs", "pvdiagram"}, {"ax"}, "pv", 111),
  S(15, 183, "imshow", {"ax", "pvdiagram"}, {"im"}, "pvdiagram", 0),
  S(15, 184, "assign", {"plt", "im"}, {"cb"}, "colorbar", 0),
  S(15, 188, "eval", {"cb"}, {}, "cb.set_label", 0) >>

Cell17 == <<
  S(17, 206, "assign", {"wcs", "pvdiagram"}, {"ww"}, "WCS", 0),
  S(17, 208, "subplot", {"plt", "ww"}, {"ax"}, "pv", 111),
  S(17, 209, "imshow", {"ax", "pvdiagram"}, {"im"}, "pvdiagram", 0),
  S(17, 210, "assign", {"plt", "im"}, {"cb"}, "colorbar", 0),
  S(17, 211, "eval", {"cb"}, {}, "cb.set_label", 0),
  S(17, 213, "assign", {"ax"}, {"ax0"}, "coords[0]", 0),
  S(17, 214, "eval", {"ax0", "u"}, {}, "set_format_unit", 0),
  S(17, 215, "assign", {"ax"}, {"ax1"}, "coords[1]", 0),
  S(17, 216, "eval", {"ax1", "u"}, {}, "set_format_unit", 0),
  S(17, 218, "set_ylabel", {"ax"}, {}, VelLabel, 0),
  S(17, 219, "set_xlabel", {"ax"}, {}, OffLabel, 0) >>

Cell19 == <<
  S(19, 240, "assign", {"cube"}, {"mx"}, "max", 0) >>

Cell20 == <<
  S(20, 250, "figure", {"plt"}, {}, "", 0),
  S(20, 251, "subplot", {"plt", "cube"}, {"ax"}, "celestial", 121),
  S(20, 252, "imshow", {"ax", "mx"}, {}, "mx", 0),
  S(20, 253, "show_on_axis", {"path", "ax"}, {}, "path", 1),
  S(20, 255, "assign", {"wcs", "pvdiagram"}, {"ww"}, "WCS", 0),
  S(20, 256, "set_xlabel", {"ax", "cube"}, {}, RALabel, 0),
  S(20, 257, "set_ylabel", {"ax", "cube"}, {}, DecLabel, 0),
  S(20, 259, "subplot", {"plt", "ww"}, {"ax"}, "pv", 122),
  S(20, 260, "imshow", {"ax", "pvdiagram"}, {"im"}, "pvdiagram", 0),
  S(20, 262, "assign", {"ax"}, {"ax0"}, "coords[0]", 0),
  S(20, 263, "eval", {"ax0", "u"}, {}, "set_format_unit", 0),
  S(20, 264, "assign", {"ax"}, {"ax1"}, "coords[1]", 0),
  S(20, 265, "eval", {"ax1", "u"}, {}, "set_format_unit", 0),
  S(20, 267, "set_ylabel", {"ax"}, {}, VelLabel, 0),
  S(20, 268, "set_xlabel", {"ax"}, {}, OffLabel, 0) >>

\* A forgotten import.
Cell23Missing == << >>

Cell23 == <<
  S(23, 294, "import", {}, {"SkyCoord"}, "astropy.coordinates", 0) >>

Cell24 == <<
  S(24, 304, "Path", {"Path", "SkyCoord", "u"}, {"skypath"}, "skypath", 0) >>

Cell26 == <<
  S(26, 324, "subplot", {"plt", "cube"}, {"ax"}, "celestial", 111),
  S(26, 325, "imshow", {"ax", "cube"}, {}, "cube[25]", 0),
  S(26, 326, "show_on_axis", {"skypath", "ax"}, {}, "skypath", 1),
  S(26, 327, "set_xlabel", {"ax", "cube"}, {}, RALabel, 0),
  S(26, 328, "set_ylabel", {"ax", "cube"}, {}, DecLabel, 0) >>

Cell27 == <<
  S(27, 338, "extract", {"extract_pv_slice", "cube", "skypath"},
    {"pvdiagram2"}, "skypath", NoSpacingArg),
  S(27, 339, "eval", {"pvdiagram2"}, {}, "pvdiagram2", 0) >>

Cell28 == <<
  S(28, 349, "figure", {"plt"}, {}, "", 0),
  S(28, 350, "subplot", {"plt", "cube"}, {"ax"}, "celestial", 121),
  S(28, 351, "imshow", {"ax", "mx"}, {}, "mx", 0),
  S(28, 352, "show_on_axis", {"skypath", "ax"}, {}, "skypath", 1),
  S(28, 354, "assign", {"wcs", "pvdiagram2"}, {"ww"}, "WCS", 0),
  S(28, 355, "set_xlabel", {"ax", "cube"}, {}, RALabel, 0),
  S(28, 356, "set_ylabel", {"ax", "cube"}, {}, DecLabel, 0),
  S(28, 358, "subplot", {"plt", "ww"}, {"ax"}, "pv", 122),
  S(28, 359, "imshow", {"ax", "pvdiagram2"}, {"im"}, "pvdiagram2", 0),
  S(28, 361, "assign", {"ax"}, {"ax0"}, "coords[0]", 0),
  S(28, 362, "eval", {"ax0", "u"}, {}, "set_format_unit", 0),
  S(28, 363, "assign", {"ax"}, {"ax1"}, "coords[1]", 0),
  S(28, 364, "eval", {"ax1", "u"}, {}, "set_format_unit", 0),
  S(28, 366, "set_ylabel", {"ax"}, {}, VelLabel, 0),
  S(28, 367, "set_xlabel", {"ax"}, {}, OffLabel, 0) >>

Cell30 == <<
  S(30, 385, "figure", {"plt"}, {}, "", 0),
  S(30, 386, "subplot", {"plt", "cube"}, {"ax"}, "celestial", 121),
  S(30, 387, "imshow", {"ax", "mx"}, {}, "mx", 0),
  S(30, 388, "show_on_axis", {"skypath", "ax"}, {}, "skypath", 1),
  S(30, 390, "assign", {"wcs", "pvdiagram2"}, {"ww"}, "WCS", 0),
  S(30, 391, "set_xlabel", {"ax", "cube"}, {}, RALabel, 0),
  S(30, 392, "set_ylabel", {"ax", "cube"}, {}, DecLabel, 0),
  S(30, 395, "subplot", {"plt", "ww"}, {"ax"}, "pv", 122),
  S(30, 396, "imshow", {"ax", "pvdiagram2"}, {"im"}, "pvdiagram2", 0),
  S(30, 397, "eval", {"ax"}, {}, "set_aspect", 0),
  S(30, 399, "assign", {"ax"}, {"ax0"}, "coords[0]", 0),
  S(30, 400, "eval", {"ax0", "u"}, {}, "set_format_unit", 0),
  S(30, 401, "assign", {"ax"}, {"ax1"}, "coords[1]", 0),
  S(30, 402, "eval", {"ax1", "u"}, {}, "set_format_unit", 0),
  S(30, 404, "set_ylabel", {"ax"}, {}, VelLabel, 0),
  S(30, 405, "set_xlabel", {"ax"}, {}, OffLabel, 0) >>

Cell33 == <<
  S(33, 433, "Path", {"Path", "SkyCoord", "u"}, {"skypath2"}, "skypath2", 0) >>

Cell34 == <<
  S(34, 446, "extract", {"extract_pv_slice", "cube", "skypath2"},
    {"pvdiagram3"}, "skypath2", NoSpacingArg) >>

\* spacing=1 of skypath2.show_on_axis in cell 36
Cell36OverlaySpacing == 1

Cell36 == <<
  S(36, 464, "figure", {"plt"}, {}, "", 0),
  S(36, 465, "subplot", {"plt", "cube"}, {"ax"}, "celestial", 121),
  S(36, 466, "imshow", {"ax", "mx"}, {}, "mx", 0),
  S(36, 468, "show_on_axis", {"skypath2", "ax"}, {}, "skypath2",
    Cell36OverlaySpacing),
  S(36, 470, "assign", {"wcs", "pvdiagram3"}, {"ww"}, "WCS", 0),
  S(36, 471, "set_xlabel", {"ax", "cube"}, {}, RALabel, 0),
  S(36, 472, "set_ylabel", {"ax", "cube"}, {}, DecLabel, 0),
  S(36, 474, "subplot", {"plt", "ww"}, {"ax"}, "pv", 122),
  S(36, 475, "imshow", {"ax", "pvdiagram3"}, {"im"}, "pvdiagram3", 0),
  S(36, 476, "eval", {"ax"}, {}, "set_aspect", 0),
  S(36, 478, "assign", {"plt", "im"}, {"cb"}, "colorbar", 0),
  S(36, 479, "eval", {"cb"}, {}, "cb.set_label", 0),
  S(36, 481, "assign", {"ax"}, {"ax0"}, "coords[0]", 0),
  S(36, 482, "eval", {"ax0", "u"}, {}, "set_format_unit", 0),
  S(36, 483, "assign", {"ax"}, {"ax1"}, "coords[1]", 0),
  S(36, 484, "eval", {"ax1", "u"}, {}, "set_format_unit", 0),
  S(36, 487, "set_ylabel", {"ax"}, {}, VelLabel, 0),
  S(36, 488, "set_xlabel", {"ax"}, {}, OffLabel, 0) >>

\* spacing=5 of the extraction in cell 38
Cell38ExtractSpacing == 5

\* The overlay call copied from cell 36 without changing its spacing.
Cell38OverlaySpacingCopied == Cell36OverlaySpacing

\* spacing=5 of skypath2.show_on_axis in cell 38
Cell38OverlaySpacing == 5

\* The closing label calls of cell 38 with set_xlabel left out.
Cell38LabelsYOnly == <<
  S(38, 530, "set_ylabel", {"ax"}, {}, VelLabel, 0) >>

Cell38Labels == <<
  S(38, 530, "set_ylabel", {"ax"}, {}, VelLabel, 0),
  S(38, 531, "set_xlabel", {"ax"}, {}, OffLabel, 0) >>

Cell38 == <<
  S(38, 508, "extract", {"extract_pv_slice", "cube", "skypath2"},
    {"pvdiagram4"}, "skypath2", Cell38ExtractSpacing),
  S(38, 510, "figure", {"plt"}, {"fig"}, "", 0),
  S(38, 511, "subplot", {"plt", "cube"}, {"ax"}, "celestial", 121),
  S(38, 512, "imshow", {"ax", "mx"}, {}, "mx", 0),
  S(38, 513, "show_on_axis", {"skypath2", "ax"}, {}, "skypath2",
    Cell38OverlaySpacing),
  S(38, 515, "assign", {"wcs", "pvdiagram4"}, {"ww"}, "WCS", 0),
  S(38, 516, "set_xlabel", {"ax", "cube"}, {}, RALabel, 0),
  S(38, 517, "set_ylabel", {"ax", "cube"}, {}, DecLabel, 0),
  S(38, 519, "subplot", {"plt", "ww"}, {"ax"}, "pv", 122),
  S(38, 520, "imshow", {"ax", "pvdiagram4"}, {"im"}, "pvdiagram4", 0),
  S(38, 521, "assign", {"plt", "im"}, {"cb"}, "colorbar", 0),
  S(38, 522, "eval", {"cb"}, {}, "cb.set_label", 0),
  S(38, 523, "eval", {"ax"}, {}, "set_aspect", 0),
  S(38, 525, "assign", {"ax"}, {"ax0"}, "coords[0]", 0),
  S(38, 526, "eval", {"ax0", "u"}, {}, "set_format_unit", 0),
  S(38, 527, "assign", {"ax"}, {"ax1"}, "coords[1]", 0),
  S(38, 528, "eval", {"ax1", "u"}, {}, "set_format_unit", 0) >>
  \o Cell38Labels

\* writeto called with overwrite left at False.
WritetoOverwriteOff == FALSE

\* overwrite=True of pvdiagram.writeto
WritetoOverwrite == TRUE

Cell40 == <<
  [S(40, 551, "writeto", {"pvdiagram"}, {}, FitsFile, 0)
     EXCEPT !.flag = WritetoOverwrite] >>

Cell42 == <<
  S(42, 569, "savefig", {"fig"}, {}, PngFile, 0),
  S(42, 570, "savefig", {"fig"}, {}, PdfFile, 0) >>

\* The code cells in notebook order ("Run All").
Program ==
  Cell2 \o Cell4 \o Cell6 \o Cell8 \o Cell10 \o Cell13 \o Cell15 \o Cell17
  \o Cell19 \o Cell20 \o Cell23 \o Cell24 \o Cell26 \o Cell27 \o Cell28
  \o Cell30 \o Cell33 \o Cell34 \o Cell36 \o Cell38 \o Cell40 \o Cell42


\* ------------------------------------------------------------------- state
VARIABLES
  pc,        \* index in Program of the next statement to execute
  run,       \* which run of the notebook this is
  err,       \* "none", or the exception that stopped the run
  bound,     \* the names bound in the kernel's namespace
  cube,      \* the cube that `cube` refers to (0: none)
  paths,     \* the Path object each path variable refers to
  diagrams,  \* the PV slice each pvdiagram variable refers to
  ax,        \* the panel that `ax` refers to (index in panels, 0: none)
  fig,       \* the figure that `fig` refers to (0: none)
  curfig,    \* pyplot's current figure (0: none)
  nfigs,     \* number of figures created in this run
  panels,    \* the axes created in this run, in order of creation
  files,     \* the files of the working directory
  log        \* the pipeline events of this run, in order

vars == <<pc, run, err, bound, cube, paths, diagrams, ax, fig, curfig,
          nfigs, panels, files, log>>

Event(k, n, a, c) == [kind |-> k, name |-> n, aux |-> a, cell |-> c]

NewPanel(f, c, pos) ==
  [fig |-> f, cell |-> c, pos |-> pos, image |-> "", diagval |-> NoDiagram,
   overlays |-> {}, xlabel |-> "", ylabel |-> ""]

\* A file of the working directory left by something before the first run.
StaleFile == [exists |-> TRUE, diag |-> NoDiagram, fig |-> 0, run |-> 0]

Init ==
  /\ pc = 1
  /\ run = 1
  /\ err = "none"
  /\ bound = {}
  /\ cube = 0
  /\ paths = [p \in PathVars |-> NoPath]
  /\ diagrams = [d \in Diagrams |-> NoDiagram]
  /\ ax = 0
  /\ fig = 0
  /\ curfig = 0
  /\ nfigs = 0
  /\ panels = << >>
  /\ \E pre \in BOOLEAN :
       files = [f \in FileNames |->
                  IF pre /\ f = FitsFile THEN StaleFile ELSE NoFile]
  /\ log = << >>

Cur == Program[pc]

\* The kernel is about to execute a statement with operation o.
Ready(o) == err = "none" /\ pc <= Len(Program) /\ Cur.op = o

\* Every name the statement reads is bound.
Defined(s) == s.reads \subseteq bound

\* Reading an unbound name raises NameError, which stops the run.
NameError ==
  /\ err' = "NameError"
  /\ UNCHANGED <<pc, run, bound, cube, paths, diagrams, ax, fig, curfig,
                 nfigs, panels, files, log>>

\* Move to the next statement.  The inline backend shows and closes the
\* figures of a cell when the cell ends, so the next cell starts without a
\* current figure.
Advance(s, f) ==
  /\ pc' = pc + 1
  /\ curfig' = IF pc + 1 > Len(Program) \/ Program[pc + 1].cell # s.cell
               THEN 0 ELSE f

\* import ... / from ... import ...
Import ==
  /\ Ready("import")
  /\ LET s == Cur IN
       IF Defined(s)
       THEN /\ bound' = bound \cup s.binds
            /\ Advance(s, curfig)
            /\ UNCHANGED <<run, err, cube, paths, diagrams, ax, fig, nfigs,
                           panels, files, log>>
       ELSE NameError

\* An expression statement whose effect lies outside the modelled state
\* (display of a value, rcParams, set_format_unit, set_aspect, set_label).
Eval ==
  /\ Ready("eval")
  /\ LET s == Cur IN
       IF Defined(s)
       THEN /\ Advance(s, curfig)
            /\ UNCHANGED <<run, err, bound, cube, paths, diagrams, ax, fig,
                           nfigs, panels, files, log>>
       ELSE NameError

\* name = <object derived from the names read> (WCS, colorbar, coords, max)
Assign ==
  /\ Ready("assign")
  /\ LET s == Cur IN
       IF Defined(s)
       THEN /\ bound' = bound \cup s.binds
            /\ Advance(s, curfig)
            /\ UNCHANGED <<run, err, cube, paths, diagrams, ax, fig, nfigs,
                           panels, files, log>>
       ELSE NameError

\* cube = SpectralCube.read(url): the content is whatever the URL serves.
ReadCube ==
  /\ Ready("read")
  /\ LET s == Cur IN
       IF Defined(s)
       THEN /\ \E c \in 1..NumCubes : cube' = c
            /\ bound' = bound \cup s.binds
            /\ log' = Append(log, Event("load", "cube", "", s.cell))
            /\ Advance(s, curfig)
            /\ UNCHANGED <<run, err, paths, diagrams, ax, fig, nfigs,
                           panels, files>>
       ELSE NameError

\* name = Path(...)
MakePath ==
  /\ Ready("Path")
  /\ LET s == Cur IN
       IF Defined(s)
       THEN /\ paths' = [paths EXCEPT ![s.arg] = PathLiteral(s.arg)]
            /\ bound' = bound \cup s.binds
            /\ log' = Append(log, Event("path", s.arg, "", s.cell))
            /\ Advance(s, curfig)
            /\ UNCHANGED <<run, err, cube, diagrams, ax, fig, nfigs,
                           panels, files>>
       ELSE NameError

\* name = extract_pv_slice(cube=cube, path=p[, spacing=n])
ExtractPvSlice ==
  /\ Ready("extract")
  /\ LET s == Cur
         d == CHOOSE x \in s.binds : TRUE
     IN
       IF Defined(s)
       THEN /\ diagrams' = [diagrams EXCEPT
                              ![d] = PVSlice(cube, paths[s.arg], s.num)]
            /\ bound' = bound \cup s.binds
            /\ log' = Append(log, Event("extract", d, s.arg, s.cell))
            /\ Advance(s, curfig)
            /\ UNCHANGED <<run, err, cube, paths, ax, fig, nfigs, panels,
                           files>>
       ELSE NameError

\* plt.figure(...), bound to fig in cell 38
Figure ==
  /\ Ready("figure")
  /\ LET s == Cur IN
       IF Defined(s)
       THEN /\ nfigs' = nfigs + 1
            /\ fig' = IF "fig" \in s.binds THEN nfigs + 1 ELSE fig
            /\ bound' = bound \cup s.binds
            /\ Advance(s, nfigs + 1)
            /\ UNCHANGED <<run, err, cube, paths, diagrams, ax, panels,
                           files, log>>
       ELSE NameError

\* ax = plt.subplot(pos, projection=...): a new panel in the current
\* figure, which is created when there is none.
Subplot ==
  /\ Ready("subplot")
  /\ LET s == Cur
         f == IF curfig = 0 THEN nfigs + 1 ELSE curfig
     IN
       IF Defined(s)
       THEN /\ nfigs' = IF curfig = 0 THEN nfigs + 1 ELSE nfigs
            /\ panels' = Append(panels, NewPanel(f, s.cell, s.num))
            /\ ax' = Len(panels) + 1
            /\ bound' = bound \cup s.binds
            /\ Advance(s, f)
            /\ UNCHANGED <<run, err, cube, paths, diagrams, fig, files, log>>
       ELSE NameError

\* plt.imshow(...): draws on the current axes, creating figure and axes
\* when there are none.
PltImshow ==
  /\ Ready("plt_imshow")
  /\ LET s == Cur
         f == IF curfig = 0 THEN nfigs + 1 ELSE curfig
     IN
       IF Defined(s)
       THEN /\ nfigs' = IF curfig = 0 THEN nfigs + 1 ELSE nfigs
            /\ panels' = Append(panels,
                   [NewPanel(f, s.cell, 111) EXCEPT !.image = s.arg])
            /\ Advance(s, f)
            /\ UNCHANGED <<run, err, bound, cube, paths, diagrams, ax, fig,
                           files, log>>
       ELSE NameError

\* [im =] ax.imshow(X)
Imshow ==
  /\ Ready("imshow")
  /\ LET s == Cur IN
       IF Defined(s)
       THEN /\ panels' = [panels EXCEPT
                ![ax].image = s.arg,
                ![ax].diagval = IF s.arg \in Diagrams
                                THEN diagrams[s.arg] ELSE NoDiagram]
            /\ bound' = bound \cup s.binds
            /\ log' = IF s.arg \in Diagrams
                      THEN Append(log, Event("render", s.arg, "", s.cell))
                      ELSE log
            /\ Advance(s, curfig)
            /\ UNCHANGED <<run, err, cube, paths, diagrams, ax, fig, nfigs,
                           files>>
       ELSE NameError

\* p.show_on_axis(ax, spacing=n, ...)
ShowOnAxis ==
  /\ Ready("show_on_axis")
  /\ LET s == Cur IN
       IF Defined(s)
       THEN /\ panels' = [panels EXCEPT ![ax].overlays =
                @ \cup {[path |-> paths[s.arg], spacing |-> s.num]}]
            /\ log' = Append(log, Event("overlay", s.arg, "", s.cell))
            /\ Advance(s, curfig)
            /\ UNCHANGED <<run, err, bound, cube, paths, diagrams, ax, fig,
                           nfigs, files>>
       ELSE NameError

\* ax.set_xlabel(text)
SetXLabel ==
  /\ Ready("set_xlabel")
  /\ LET s == Cur IN
       IF Defined(s)
       THEN /\ panels' = [panels EXCEPT ![ax].xlabel = s.arg]
            /\ Advance(s, curfig)
            /\ UNCHANGED <<run, err, bound, cube, paths, diagrams, ax, fig,
                           nfigs, files, log>>
       ELSE NameError

\* ax.set_ylabel(text)
SetYLabel ==
  /\ Ready("set_ylabel")
  /\ LET s == Cur IN
       IF Defined(s)
       THEN /\ panels' = [panels EXCEPT ![ax].ylabel = s.arg]
            /\ Advance(s, curfig)
            /\ UNCHANGED <<run, err, bound, cube, paths, diagrams, ax, fig,
                           nfigs, files, log>>
       ELSE NameError

\* d.writeto(file, overwrite=flag): without overwrite an existing target is
\* an OSError; with it the target is replaced.
WriteTo ==
  /\ Ready("writeto")
  /\ LET s == Cur
         d == CHOOSE x \in s.reads : TRUE
     IN
       IF Defined(s)
       THEN IF files[s.arg].exists /\ ~s.flag
            THEN /\ err' = "OSError"
                 /\ UNCHANGED <<pc, run, bound, cube, paths, diagrams, ax,
                                fig, curfig, nfigs, panels, files, log>>
            ELSE /\ files' = [files EXCEPT ![s.arg] =
                       [exists |-> TRUE, diag |-> diagrams[d], fig |-> 0,
                        run |-> run]]
                 /\ log' = Append(log, Event("write", s.arg, d, s.cell))
                 /\ Advance(s, curfig)
                 /\ UNCHANGED <<run, err, bound, cube, paths, diagrams, ax,
                                fig, nfigs, panels>>
       ELSE NameError

\* fig.savefig(file, ...): replaces the target.
SaveFig ==
  /\ Ready("savefig")
  /\ LET s == Cur IN
       IF Defined(s)
       THEN /\ files' = [files EXCEPT ![s.arg] =
                  [exists |-> TRUE, diag |-> NoDiagram, fig |-> fig,
                   run |-> run]]
            /\ log' = Append(log, Event("write", s.arg, "fig", s.cell))
            /\ Advance(s, curfig)
            /\ UNCHANGED <<run, err, bound, cube, paths, diagrams, ax, fig,
                           nfigs, panels>>
       ELSE NameError

\* The whole notebook is run again in a fresh kernel; the files stay.
Restart ==
  /\ err = "none"
  /\ pc = Len(Program) + 1
  /\ run < MaxRuns
  /\ pc' = 1
  /\ run' = run + 1
  /\ bound' = {}
  /\ cube' = 0
  /\ paths' = [p \in PathVars |-> NoPath]
  /\ diagrams' = [d \in Diagrams |-> NoDiagram]
  /\ ax' = 0
  /\ fig' = 0
  /\ curfig' = 0
  /\ nfigs' = 0
  /\ panels' = << >>
  /\ log' = << >>
  /\ UNCHANGED <<err, files>>

Next ==
  \/ Import
  \/ Eval
  \/ Assign
  \/ ReadCube
  \/ MakePath
  \/ ExtractPvSlice
  \/ Figure
  \/ Subplot
  \/ PltImshow
  \/ Imshow
  \/ ShowOnAxis
  \/ SetXLabel
  \/ SetYLabel
  \/ WriteTo
  \/ SaveFig
  \/ Restart

Spec == Init /\ [][Next]_vars

Done == err = "none" /\ pc = Len(Program) + 1


\* ------------------------------------------------------------ properties
\* An event of kind k about name n precedes position i of the log.
Before(i, k, n) ==
  \E j \in 1..(i - 1) : log[j].kind = k /\ log[j].name = n

\* The cell c has been executed to its end.
CellFinished(c) ==
  err = "none" /\ (pc > Len(Program) \/ Program[pc].cell # c)

\* The panels that render an extracted PV diagram.
PVPanels == {i \in DOMAIN panels : panels[i].image \in Diagrams}

Labelled(i) == panels[i].xlabel # "" /\ panels[i].ylabel # ""

\* C1: running the cells top to bottom, the stages happen in pipeline order
\* for each of the four diagrams: the cube is loaded before any path is
\* used, the Path given to extract_pv_slice is constructed before the call,
\* a diagram is extracted before it is rendered, the file writes come after
\* all four extractions, and no statement reads a name that no earlier
\* statement has bound.
C1_PipelineOrder ==
  /\ err # "NameError"
  /\ (err = "none" /\ pc <= Len(Program)) => Program[pc].reads \subseteq bound
  /\ \A i \in DOMAIN log :
       /\ log[i].kind \in {"overlay", "extract"} => Before(i, "load", "cube")
       /\ log[i].kind = "overlay" => Before(i, "path", log[i].name)
       /\ log[i].kind = "extract" => Before(i, "path", log[i].aux)
       /\ log[i].kind = "render" => Before(i, "extract", log[i].name)
       /\ log[i].kind = "write" =>
            /\ \A d \in Diagrams : Before(i, "extract", d)
            /\ \A j \in DOMAIN log : j > i => log[j].kind # "extract"
  /\ Done =>
       /\ \A d \in Diagrams :
            \E i \in DOMAIN log : log[i].kind = "render" /\ log[i].name = d
       /\ \A f \in FileNames :
            \E i \in DOMAIN log : log[i].kind = "write" /\ log[i].name = f

\* A run that reached the end: four diagrams extracted, three files written.
C1_Witness ==
  /\ Done
  /\ \A d \in Diagrams : diagrams[d] # NoDiagram
  /\ \A f \in FileNames : files[f].exists /\ files[f].run = run

\* C2 as stated: every rendering of an extracted PV diagram has both an
\* x-axis label and a y-axis label set on its panel by the end of the cell
\* that renders it.
C2_EveryRenderingLabelled ==
  \A i \in PVPanels : CellFinished(panels[i].cell) => Labelled(i)

\* C2 amended: the first plot of pvdiagram (cell 15) sets no axis label, only
\* the colorbar label; every other rendering of an extracted PV diagram has
\* both axis labels set by the end of its cell, and each of the four
\* diagrams has such a labelled rendering.
C2_LabelledExceptFirstPlot ==
  /\ \A i \in PVPanels :
       CellFinished(panels[i].cell) =>
         IF panels[i].cell = 15
         THEN panels[i].xlabel = "" /\ panels[i].ylabel = ""
         ELSE panels[i].xlabel = OffLabel /\ panels[i].ylabel = VelLabel
  /\ Done =>
       \A d \in Diagrams :
         \E i \in PVPanels : panels[i].image = d /\ Labelled(i)

\* The unlabelled first plot and a labelled rendering of the last diagram
\* are both on screen.
C2_Witness ==
  /\ Done
  /\ \E i \in PVPanels : panels[i].cell = 15 /\ ~Labelled(i)
  /\ \E i \in PVPanels : panels[i].image = "pvdiagram4" /\ Labelled(i)

\* C3: in every figure that shows a path overlay beside a PV diagram, the
\* Path drawn is the Path the diagram was extracted along, and the spacing
\* of the overlay is the spacing of the extraction (its spacing argument,
\* or the default of 1 pixel).
C3_OverlayIsExtractedPath ==
  \A i \in DOMAIN panels : \A j \in PVPanels :
    panels[i].fig = panels[j].fig =>
      \A o \in panels[i].overlays :
        /\ o.path = panels[j].diagval.path
        /\ o.spacing = panels[j].diagval.spacing

\* A figure with an overlay at spacing 5 beside pvdiagram4, in a run that
\* also showed an overlay at spacing 1 beside a diagram extracted with the
\* default spacing.
C3_Witness ==
  /\ \E i \in DOMAIN panels : \E j \in PVPanels :
       /\ panels[i].fig = panels[j].fig
       /\ panels[j].image = "pvdiagram4"
       /\ \E o \in panels[i].overlays : o.spacing = 5
  /\ \E i \in DOMAIN panels : \E j \in PVPanels :
       /\ panels[i].fig = panels[j].fig
       /\ panels[j].image = "pvdiagram3"
       /\ \E o \in panels[i].overlays : o.spacing = 1

\* C6: writeto with overwrite=True never stops on an existing target: no
\* OSError is reachable, and at the end of every run, the first or a later
\* one, saved_pvdiagram.fits holds the pvdiagram of that run.
C6_WritetoReplaces ==
  /\ err # "OSError"
  /\ Done =>
       files[FitsFile] = [exists |-> TRUE, diag |-> diagrams["pvdiagram"],
                          fig |-> 0, run |-> run]

\* The end of a second run, whose writeto found the file of the first.
C6_Witness ==
  /\ Done
  /\ run > 1
  /\ files[FitsFile].run = run

====
